---- MODULE Spec2Model ----
(***************************************************************************)
(* A model of the console contact manager of src/main.py: the validated    *)
(* field types (Name, Phone, Birthday), the contact Record, the            *)
(* AddressBook with its upcoming-birthday query, and the command loop.     *)
(*                                                                         *)
(* Strings are sequences of characters; a character is a one-character     *)
(* string, except the one non-ASCII character of the model, written        *)
(* "U0663" (ARABIC-INDIC DIGIT THREE).  Dates are records [y, m, d].       *)
(* Python's ValueError carries both of the spec's ValidationError and the  *)
(* phone NotFoundError (they differ by message); KeyError is the record    *)
(* NotFoundError.                                                          *)
(***************************************************************************)
EXTENDS Integers, Sequences, FiniteSets, TLC

VARIABLES book, last, ref, refOut, pc

vars == <<book, last, ref, refOut, pc>>

----------------------------------------------------------------------------
(* Characters and strings                                                  *)

AsciiDigits == {"0", "1", "2", "3", "4", "5", "6", "7", "8", "9"}

ArabicIndic3 == "U0663"

\* What \d matches in a str pattern: every Unicode decimal digit.
UnicodeDigits == AsciiDigits \cup {ArabicIndic3}

NL == "\n"

SP == " "

\* int() of one decimal digit character.
DigitVal(c) ==
    CASE c = "0" -> 0 [] c = "1" -> 1 [] c = "2" -> 2 [] c = "3" -> 3
      [] c = "4" -> 4 [] c = "5" -> 5 [] c = "6" -> 6 [] c = "7" -> 7
      [] c = "8" -> 8 [] c = "9" -> 9 [] c = ArabicIndic3 -> 3

DigitChar(n) == <<"0", "1", "2", "3", "4", "5", "6", "7", "8", "9">>[n + 1]

RECURSIVE ToInt(_)
\* int() of a non-empty string of decimal digits.
ToInt(s) ==
    IF Len(s) = 0 THEN 0
    ELSE 10 * ToInt(SubSeq(s, 1, Len(s) - 1)) + DigitVal(s[Len(s)])

\* Results of an operation: a value, or a raised exception with its message.
Ok(v) == [kind |-> "ok", msg |-> "", val |-> v]

Raise(type, message) == [kind |-> type, msg |-> message, val |-> <<>>]

----------------------------------------------------------------------------
(* Validated field types                                                   *)

\* Name.__init__ without its length test.
NameInitUnchecked(value) == Ok(value)

\* Name.__init__
NameInit(value) ==
    IF Len(value) # 0 THEN Ok(value)
    ELSE Raise("ValueError", "Name cannot be empty")

PhoneLen == 10

\* re.match(r"^\d+$", number): one or more \d from the start, up to the end
\* of the string or up to a newline that ends the string.
ReMatchDigits(number) ==
    \E k \in 1..Len(number) :
        /\ \A i \in 1..k : number[i] \in UnicodeDigits
        /\ \/ k = Len(number)
           \/ k = Len(number) - 1 /\ number[Len(number)] = NL

\* Phone.validate_number
validate_number(number) ==
    Len(number) = PhoneLen /\ ReMatchDigits(number)

\* Phone.__init__
PhoneInit(number) ==
    IF validate_number(number) THEN Ok(number)
    ELSE Raise("ValueError", "Invalid phone number")

\* Phone.__eq__ on two Phone objects
PhoneEq(a, b) == a = b

----------------------------------------------------------------------------
(* Calendar dates (datetime.date)                                          *)

None == [y |-> 0, m |-> 0, d |-> 0]

IsLeap(y) == y % 4 = 0 /\ (y % 100 # 0 \/ y % 400 = 0)

DaysInMonth(y, m) ==
    IF m = 2 THEN (IF IsLeap(y) THEN 29 ELSE 28)
    ELSE IF m \in {4, 6, 9, 11} THEN 30 ELSE 31

MinYear == 1

MaxYear == 9999

\* The date constructor's range check.
ValidDate(y, m, d) ==
    /\ MinYear <= y /\ y <= MaxYear
    /\ 1 <= m /\ m <= 12
    /\ 1 <= d /\ d <= DaysInMonth(y, m)

RECURSIVE DaysBeforeMonth(_, _)
DaysBeforeMonth(y, m) ==
    IF m = 1 THEN 0 ELSE DaysBeforeMonth(y, m - 1) + DaysInMonth(y, m - 1)

\* date.toordinal; dates compare as their ordinals do, and
\* (a + timedelta(days=n)).toordinal() = a.toordinal() + n.
ToOrdinal(dt) ==
    LET y1 == dt.y - 1
    IN  y1 * 365 + (y1 \div 4) - (y1 \div 100) + (y1 \div 400)
          + DaysBeforeMonth(dt.y, dt.m) + dt.d

\* date.replace(year=...) that moves a day the year lacks to the month's last.
ReplaceYearClamped(dt, year) ==
    IF MinYear <= year /\ year <= MaxYear
    THEN Ok([y |-> year, m |-> dt.m,
             d |-> IF dt.d <= DaysInMonth(year, dt.m) THEN dt.d
                   ELSE DaysInMonth(year, dt.m)])
    ELSE Raise("ValueError", "year is out of range")

\* date.replace(year=...)
ReplaceYear(dt, year) ==
    IF ValidDate(year, dt.m, dt.d)
    THEN Ok([y |-> year, m |-> dt.m, d |-> dt.d])
    ELSE Raise("ValueError", "day is out of range for month")

Pad2(n) == <<DigitChar(n \div 10), DigitChar(n % 10)>>

Pad4(n) ==
    <<DigitChar(n \div 1000), DigitChar((n \div 100) % 10),
      DigitChar((n \div 10) % 10), DigitChar(n % 10)>>

\* date.strftime('%d.%m.%Y'), for years of four digits
Strftime(dt) == Pad2(dt.d) \o <<".">> \o Pad2(dt.m) \o <<".">> \o Pad4(dt.y)

----------------------------------------------------------------------------
(* datetime.strptime(value, '%d.%m.%Y'): the format's regular expression   *)
(*   (3[0-1]|[1-2]\d|0[1-9]|[1-9]| [1-9]) \. (1[0-2]|0[1-9]|[1-9]) \.     *)
(*   (\d\d\d\d), which must match from the start and consume the string.   *)

OneToNine == AsciiDigits \ {"0"}

At(s, i) == IF i >= 1 /\ i <= Len(s) THEN s[i] ELSE "EOS"

\* End positions (exclusive) of the %d directive matched at position i.
DayEnds(s, i) ==
    LET a == At(s, i)
        b == At(s, i + 1)
    IN  (IF \/ a = "3" /\ b \in {"0", "1"}
            \/ a \in {"1", "2"} /\ b \in UnicodeDigits
            \/ a = "0" /\ b \in OneToNine
            \/ a = SP /\ b \in OneToNine
         THEN {i + 2} ELSE {})
        \cup (IF a \in OneToNine THEN {i + 1} ELSE {})

\* End positions (exclusive) of the %m directive matched at position i.
MonthEnds(s, i) ==
    LET a == At(s, i)
        b == At(s, i + 1)
    IN  (IF \/ a = "1" /\ b \in {"0", "1", "2"}
            \/ a = "0" /\ b \in OneToNine
         THEN {i + 2} ELSE {})
        \cup (IF a \in OneToNine THEN {i + 1} ELSE {})

\* The ways the whole expression matches s: <<end of day, end of month>>.
StrptimeMatches(s) ==
    UNION {{<<e1, e2>> : e2 \in {x \in MonthEnds(s, e1 + 1) :
                                   /\ At(s, x) = "."
                                   /\ \A k \in 1..4 :
                                          At(s, x + k) \in UnicodeDigits
                                   /\ Len(s) = x + 4}} :
           e1 \in {x \in DayEnds(s, 1) : At(s, x) = "."}}

\* The date of the groups of a match e; the date constructor may refuse it.
DateOfMatch(value, e) ==
    LET dd == ToInt(SelectSeq(SubSeq(value, 1, e[1] - 1), LAMBDA c : c # SP))
        mm == ToInt(SubSeq(value, e[1] + 1, e[2] - 1))
        yy == ToInt(SubSeq(value, e[2] + 1, e[2] + 4))
    IN  IF ValidDate(yy, mm, dd)
        THEN Ok([y |-> yy, m |-> mm, d |-> dd])
        ELSE Raise("ValueError", "Invalid date format. Use DD.MM.YYYY")

\* Birthday.__init__, given the matches of its value
BirthdayOfMatches(value, ms) ==
    IF ms = {} THEN Raise("ValueError", "Invalid date format. Use DD.MM.YYYY")
    ELSE DateOfMatch(value, CHOOSE e \in ms : TRUE)

\* Birthday.__init__
BirthdayInit(value) == BirthdayOfMatches(value, StrptimeMatches(value))

----------------------------------------------------------------------------
(* Record: [name, phones, birthday]; its methods give the result and the   *)
(* record as the call leaves it.                                           *)

\* Record.__init__
RecordInit(name) ==
    LET n == NameInit(name)
    IN  IF n.kind = "ok"
        THEN Ok([name |-> n.val, phones |-> <<>>, birthday |-> None])
        ELSE n

\* Record.add_phone
add_phone(rec, phone_number) ==
    LET number == PhoneInit(phone_number)
    IN  IF number.kind = "ok"
        THEN [out |-> Ok(<<>>),
              rec |-> [rec EXCEPT !.phones = Append(@, number.val)]]
        ELSE [out |-> number, rec |-> rec]

\* list.remove(obj): drops the first element equal to obj.
ListRemove(phones, obj) ==
    LET i == CHOOSE k \in 1..Len(phones) :
                 /\ PhoneEq(phones[k], obj)
                 /\ \A j \in 1..(k - 1) : ~PhoneEq(phones[j], obj)
    IN  SubSeq(phones, 1, i - 1) \o SubSeq(phones, i + 1, Len(phones))

\* A removal that drops every element equal to phone_obj.
RemoveEvery(phones, phone_obj, i) ==
    SelectSeq(phones, LAMBDA obj : ~PhoneEq(obj, phone_obj))

RECURSIVE RemoveLoop(_, _, _)
\* The for loop of Record.remove_phone, from the i-th element on.
RemoveLoop(phones, phone_obj, i) ==
    IF i > Len(phones) THEN phones
    ELSE IF PhoneEq(phones[i], phone_obj) THEN ListRemove(phones, phones[i])
    ELSE RemoveLoop(phones, phone_obj, i + 1)

\* Record.remove_phone
remove_phone(rec, phone_number) ==
    LET phone_obj == PhoneInit(phone_number)
    IN  IF phone_obj.kind = "ok"
        THEN [out |-> Ok(<<>>),
              rec |-> [rec EXCEPT !.phones = RemoveLoop(@, phone_obj.val, 1)]]
        ELSE [out |-> phone_obj, rec |-> rec]

\* Record.edit_phone with its two numbers taken the other way round.
edit_phone_swapped(rec, old_number, new_number) ==
    LET removed == remove_phone(rec, new_number)
    IN  IF removed.out.kind = "ok"
        THEN add_phone(removed.rec, old_number)
        ELSE removed

\* Record.edit_phone
edit_phone(rec, old_number, new_number) ==
    LET removed == remove_phone(rec, old_number)
    IN  IF removed.out.kind = "ok"
        THEN add_phone(removed.rec, new_number)
        ELSE removed

RECURSIVE FindLoop(_, _, _)
\* The for/else of Record.find_phone, from the i-th element on.
FindLoop(phones, phone, i) ==
    IF i > Len(phones) THEN Raise("ValueError", "Phone number not found")
    ELSE IF phones[i] = phone THEN Ok(phones[i])
    ELSE FindLoop(phones, phone, i + 1)

\* Record.find_phone
find_phone(rec, phone) == FindLoop(rec.phones, phone, 1)

\* Record.add_birthday
add_birthday(rec, birthday) ==
    LET b == BirthdayInit(birthday)
    IN  IF b.kind = "ok"
        THEN [out |-> Ok(<<>>), rec |-> [rec EXCEPT !.birthday = b.val]]
        ELSE [out |-> b, rec |-> rec]

----------------------------------------------------------------------------
(* AddressBook: the dict `data`, a sequence of [key, rec] entries in       *)
(* insertion order.                                                        *)

\* The position of key in the dict, 0 when it is not a key.
KeyIndex(data, key) ==
    IF \E i \in 1..Len(data) : data[i].key = key
    THEN CHOOSE i \in 1..Len(data) : data[i].key = key
    ELSE 0

\* A dict assignment that always adds an entry.
DictSetAppend(data, key, rec) == Append(data, [key |-> key, rec |-> rec])

\* self.data[key] = rec: a present key keeps its place.
DictSet(data, key, rec) ==
    IF KeyIndex(data, key) # 0
    THEN [data EXCEPT ![KeyIndex(data, key)] = [key |-> key, rec |-> rec]]
    ELSE Append(data, [key |-> key, rec |-> rec])

\* del self.data[key]
DictDel(data, key) ==
    LET i == KeyIndex(data, key)
    IN  SubSeq(data, 1, i - 1) \o SubSeq(data, i + 1, Len(data))

\* AddressBook.add_record
add_record(data, record_item) == DictSet(data, record_item.name, record_item)

\* AddressBook.find
find(data, key) ==
    IF KeyIndex(data, key) # 0 THEN Ok(data[KeyIndex(data, key)].rec)
    ELSE Raise("KeyError", "Record not found")

\* AddressBook.delete_record: the returned text and the dict afterwards.
delete_record(data, name) ==
    IF KeyIndex(data, name) # 0
    THEN [out |-> Ok([text |-> "deleted", name |-> name]),
          data |-> DictDel(data, name)]
    ELSE [out |-> Ok([text |-> "not found", name |-> name]), data |-> data]

\* A window that leaves out its last day.
WindowDaysShort == 7 - 1

WindowDays == 7

\* date.max.toordinal()
MaxOrdinal == ToOrdinal([y |-> MaxYear, m |-> 12, d |-> 31])

RECURSIVE UpcomingLoop(_, _, _, _)
\* The for loop of AddressBook.get_upcoming_birthdays, from the i-th entry on.
\* today <= next_birthday <= today + timedelta(days=7) adds the days only
\* when its first comparison holds, and the sum must be a date.
UpcomingLoop(data, today, i, upcoming_birthdays) ==
    IF i > Len(data) THEN Ok(upcoming_birthdays)
    ELSE LET record == data[i].rec
         IN  IF record.birthday # None
             THEN LET next_birthday == ReplaceYear(record.birthday, today.y)
                  IN  IF next_birthday.kind # "ok" THEN next_birthday
                      ELSE IF ToOrdinal(next_birthday.val) < ToOrdinal(today)
                      THEN UpcomingLoop(data, today, i + 1, upcoming_birthdays)
                      ELSE IF ToOrdinal(today) + WindowDays > MaxOrdinal
                      THEN Raise("OverflowError", "date value out of range")
                      ELSE IF ToOrdinal(next_birthday.val)
                                 <= ToOrdinal(today) + WindowDays
                      THEN UpcomingLoop(data, today, i + 1,
                              Append(upcoming_birthdays,
                                     [name |-> record.name,
                                      birthday |-> Strftime(next_birthday.val)]))
                      ELSE UpcomingLoop(data, today, i + 1, upcoming_birthdays)
             ELSE UpcomingLoop(data, today, i + 1, upcoming_birthdays)

\* AddressBook.get_upcoming_birthdays, with datetime.today().date() = today
get_upcoming_birthdays(data, today) == UpcomingLoop(data, today, 1, <<>>)

----------------------------------------------------------------------------
(* Inputs of the calls                                                     *)

Mia == <<"m", "i", "a">>

Bob == <<"b", "o", "b">>

NameArgs == {Mia, Bob, <<>>}

P1 == <<"0", "9", "9", "1", "2", "3", "4", "5", "6", "7">>

P2 == <<"0", "6", "7", "1", "1", "1", "2", "2", "3", "3">>

\* Nine digits and a line feed: ten characters.
PNewline == <<"1", "2", "3", "4", "5", "6", "7", "8", "9", NL>>

PShort == <<"1", "2", "3">>

PhoneArgs == {P1, P2, PNewline, PShort}

BLeapDay == <<"2", "9", ".", "0", "2", ".", "2", "0", "2", "4">>

BChristmas == <<"2", "5", ".", "1", "2", ".", "1", "9", "9", "0">>

BNewYear == <<"0", "1", ".", "0", "1", ".", "1", "9", "9", "0">>

BDay32 == <<"3", "2", ".", "0", "1", ".", "2", "0", "0", "0">>

BNewYearsEve == <<"3", "1", ".", "1", "2", ".", "1", "9", "9", "9">>

BirthdayArgs == {BLeapDay, BChristmas, BNewYear, BNewYearsEve, BDay32}

Date(y, m, d) == [y |-> y, m |-> m, d |-> d]

\* Values of datetime.today().date()
Todays ==
    {Date(2023, 12, 20), Date(2023, 12, 28), Date(2023, 2, 25),
     Date(2024, 2, 25), Date(2023, 12, 18), Date(9999, 12, 30)}

\* The longest phone list a call may build.
MaxPhones == 2

NoRec == [name |-> <<>>, phones |-> <<>>, birthday |-> None]

Call(op, name, a1, a2, today, out, pre) ==
    [op |-> op, name |-> name, a1 |-> a1, a2 |-> a2, today |-> today,
     out |-> out, pre |-> pre]

RecOf(data, name) == data[KeyIndex(data, name)].rec

\* A method that changed the record object stored under name.
Mutated(data, name, rec) ==
    [data EXCEPT ![KeyIndex(data, name)] = [key |-> @.key, rec |-> rec]]

----------------------------------------------------------------------------
(* The calls of the core, one action each                                  *)

Init ==
    /\ book = <<>>
    /\ last = Call("init", <<>>, <<>>, <<>>, None, Ok(<<>>), NoRec)
    /\ ref = <<>>
    /\ refOut = Ok(<<>>)
    /\ pc = "api"

\* book.add_record(Record(name))
AddRecord(name) ==
    LET r == RecordInit(name)
    IN  /\ book' = IF r.kind = "ok" THEN add_record(book, r.val) ELSE book
        /\ last' = Call("addRecord", name, <<>>, <<>>, None,
                        IF r.kind = "ok" THEN Ok(<<>>) ELSE r, NoRec)
        /\ UNCHANGED <<ref, refOut, pc>>

\* book.delete_record(name)
DeleteRecord(name) ==
    LET r == delete_record(book, name)
    IN  /\ book' = r.data
        /\ last' = Call("deleteRecord", name, <<>>, <<>>, None, r.out, NoRec)
        /\ UNCHANGED <<ref, refOut, pc>>

\* book.find(name)
Find(name) ==
    /\ last' = Call("find", name, <<>>, <<>>, None, find(book, name), NoRec)
    /\ UNCHANGED <<book, ref, refOut, pc>>

\* book.find(name).add_phone(number)
AddPhone(name, number) ==
    /\ KeyIndex(book, name) # 0
    /\ Len(RecOf(book, name).phones) < MaxPhones
    /\ LET r == add_phone(RecOf(book, name), number)
       IN  /\ book' = Mutated(book, name, r.rec)
           /\ last' = Call("addPhone", name, number, <<>>, None, r.out,
                           RecOf(book, name))
    /\ UNCHANGED <<ref, refOut, pc>>

\* book.find(name).remove_phone(number)
RemovePhone(name, number) ==
    /\ KeyIndex(book, name) # 0
    /\ LET r == remove_phone(RecOf(book, name), number)
       IN  /\ book' = Mutated(book, name, r.rec)
           /\ last' = Call("removePhone", name, number, <<>>, None, r.out,
                           RecOf(book, name))
    /\ UNCHANGED <<ref, refOut, pc>>

\* book.find(name).edit_phone(old, new)
EditPhone(name, old, new) ==
    /\ KeyIndex(book, name) # 0
    /\ LET r == edit_phone(RecOf(book, name), old, new)
       IN  /\ Len(r.rec.phones) <= MaxPhones
           /\ book' = Mutated(book, name, r.rec)
           /\ last' = Call("editPhone", name, old, new, None, r.out,
                           RecOf(book, name))
    /\ UNCHANGED <<ref, refOut, pc>>

\* book.find(name).find_phone(phone)
FindPhone(name, phone) ==
    /\ KeyIndex(book, name) # 0
    /\ last' = Call("findPhone", name, phone, <<>>, None,
                    find_phone(RecOf(book, name), phone), RecOf(book, name))
    /\ UNCHANGED <<book, ref, refOut, pc>>

\* book.find(name).add_birthday(birthday)
SetBirthday(name, birthday) ==
    /\ KeyIndex(book, name) # 0
    /\ LET r == add_birthday(RecOf(book, name), birthday)
       IN  /\ book' = Mutated(book, name, r.rec)
           /\ last' = Call("setBirthday", name, birthday, <<>>, None, r.out,
                           RecOf(book, name))
    /\ UNCHANGED <<ref, refOut, pc>>

\* book.get_upcoming_birthdays() on the day today
UpcomingBirthdays(today) ==
    /\ last' = Call("upcomingBirthdays", <<>>, <<>>, <<>>, today,
                    get_upcoming_birthdays(book, today), NoRec)
    /\ UNCHANGED <<book, ref, refOut, pc>>

\* The whole core, on few phone numbers.
Next ==
    \/ \E name \in NameArgs : AddRecord(name)
    \/ \E name \in NameArgs : DeleteRecord(name)
    \/ \E name \in NameArgs : Find(name)
    \/ \E name \in NameArgs, number \in {P1, PShort} : AddPhone(name, number)
    \/ \E name \in NameArgs, number \in {P1, PShort} :
           RemovePhone(name, number)
    \/ \E name \in NameArgs, old \in {P1, PShort}, new \in {P1, PShort} :
           EditPhone(name, old, new)
    \/ \E name \in NameArgs, phone \in {P1, PShort} : FindPhone(name, phone)
    \/ \E name \in NameArgs, birthday \in BirthdayArgs :
           SetBirthday(name, birthday)
    \/ \E today \in Todays : UpcomingBirthdays(today)

Spec == Init /\ [][Next]_vars

\* One record and every phone number.
NextPhones ==
    \/ AddRecord(Mia)
    \/ \E number \in PhoneArgs : AddPhone(Mia, number)
    \/ \E number \in PhoneArgs : RemovePhone(Mia, number)
    \/ \E old \in PhoneArgs, new \in PhoneArgs : EditPhone(Mia, old, new)
    \/ \E phone \in PhoneArgs : FindPhone(Mia, phone)
    \/ SetBirthday(Mia, BChristmas)

SpecPhones == Init /\ [][NextPhones]_vars

----------------------------------------------------------------------------
(* Phone construction alone, on strings of every shape                     *)

\* The longest run of digits in a constructed phone string.
MaxDigits == 11

Alphabet == {"7", ArabicIndic3, "a", NL, SP}

\* The strings over Alphabet of at most n characters.
UpTo(n) == UNION {[1..k -> Alphabet] : k \in 0..n}

DigitRun(k) == [i \in 1..k |-> DigitChar(i % 10)]

\* At most one character, then a run of ASCII digits, then at most two.
PhoneInputs ==
    {h \o DigitRun(k) \o t : h \in UpTo(1), k \in 0..MaxDigits, t \in UpTo(2)}

InitPhone ==
    /\ book = <<>>
    /\ \E number \in PhoneInputs :
           last = Call("input", <<>>, number, <<>>, None, Ok(<<>>), NoRec)
    /\ ref = <<>>
    /\ refOut = Ok(<<>>)
    /\ pc = "api"

\* Phone(number)
ConstructPhone ==
    /\ last.op = "input"
    /\ last' = Call("Phone", <<>>, last.a1, <<>>, None, PhoneInit(last.a1),
                    NoRec)
    /\ UNCHANGED <<book, ref, refOut, pc>>

SpecPhone == InitPhone /\ [][ConstructPhone]_vars

----------------------------------------------------------------------------
(* Setting a birthday, on strings of every shape                           *)

DayParts ==
    {<<"0", "1">>, <<"1">>, <<"2", "9">>, <<"3", "1">>, <<"3", "2">>,
     <<"0", "0">>, <<SP, "1">>, <<"1", ArabicIndic3>>, <<ArabicIndic3, "1">>}

MonthParts ==
    {<<"0", "2">>, <<"2">>, <<"1", "2">>, <<"1", "3">>, <<"0", "0">>, <<"1">>}

YearParts ==
    {<<"2", "0", "2", "3">>, <<"2", "0", "2", "4">>, <<"0", "0", "0", "0">>,
     <<"2", "0", "2">>, <<"2", "0", "2", "4", "5">>,
     <<"2", "0", "2", ArabicIndic3>>}

BirthdayInputs ==
    {d \o <<sep>> \o m \o <<".">> \o y \o t :
        d \in DayParts, sep \in {".", "-"}, m \in MonthParts, y \in YearParts,
        t \in {<<>>, <<NL>>}}

InitBirthday ==
    /\ \E birthday \in {None, Date(1990, 12, 25)} :
           book = <<[key |-> Mia,
                     rec |-> [name |-> Mia, phones |-> <<>>,
                              birthday |-> birthday]]>>
    /\ \E value \in BirthdayInputs :
           last = Call("input", Mia, value, <<>>, None, Ok(<<>>), NoRec)
    /\ ref = <<>>
    /\ refOut = Ok(<<>>)
    /\ pc = "api"

\* book.find("mia").add_birthday(value), once
ReadBirthday == last.op = "input" /\ SetBirthday(Mia, last.a1)

SpecBirthday == InitBirthday /\ [][ReadBirthday]_vars

----------------------------------------------------------------------------
(* The book beside a reference map from names to records                   *)

BookNames == {Mia, Bob}

\* Records as add_contact and add-birthday leave them.
BookRecords ==
    [name : BookNames, phones : {<<>>, <<P1>>},
     birthday : {None, Date(1990, 12, 25)}]

InitBook ==
    /\ book = <<>>
    /\ last = Call("init", <<>>, <<>>, <<>>, None, Ok(<<>>), NoRec)
    /\ ref = [n \in BookNames |-> NoRec]
    /\ refOut = Ok(<<>>)
    /\ pc = "api"

\* book.add_record(record_item); pre is the record the name had before.
BookAddRecord(record_item) ==
    /\ book' = add_record(book, record_item)
    /\ last' = Call("addRecord", record_item.name, <<>>, <<>>, None, Ok(<<>>),
                    IF KeyIndex(book, record_item.name) # 0
                    THEN RecOf(book, record_item.name) ELSE NoRec)
    /\ ref' = [ref EXCEPT ![record_item.name] = record_item]
    /\ refOut' = Ok(<<>>)
    /\ UNCHANGED pc

\* book.delete_record(name)
BookDeleteRecord(name) ==
    /\ book' = delete_record(book, name).data
    /\ last' = Call("deleteRecord", name, <<>>, <<>>, None,
                    delete_record(book, name).out, NoRec)
    /\ ref' = [ref EXCEPT ![name] = NoRec]
    /\ refOut' = Ok([text |-> IF ref[name] # NoRec THEN "deleted"
                              ELSE "not found",
                     name |-> name])
    /\ UNCHANGED pc

\* book.find(name)
BookFind(name) ==
    /\ last' = Call("find", name, <<>>, <<>>, None, find(book, name), NoRec)
    /\ refOut' = IF ref[name] # NoRec THEN Ok(ref[name])
                 ELSE Raise("KeyError", "Record not found")
    /\ UNCHANGED <<book, ref, pc>>

NextBook ==
    \/ \E record_item \in BookRecords : BookAddRecord(record_item)
    \/ \E name \in BookNames : BookDeleteRecord(name)
    \/ \E name \in BookNames : BookFind(name)

SpecBook == InitBook /\ [][NextBook]_vars

----------------------------------------------------------------------------
(* The command loop of main()                                              *)

Whitespace == {SP, "\t"}

UpperCase == <<"A", "B", "C", "D", "E", "I", "L", "M", "O", "X">>

LowerCase == <<"a", "b", "c", "d", "e", "i", "l", "m", "o", "x">>

\* str.lower() of one character
LowerChar(c) ==
    IF \E i \in 1..Len(UpperCase) : UpperCase[i] = c
    THEN LowerCase[CHOOSE i \in 1..Len(UpperCase) : UpperCase[i] = c]
    ELSE c

\* str.lower()
Lower(s) == [i \in 1..Len(s) |-> LowerChar(s[i])]

RECURSIVE LStrip(_)
LStrip(s) ==
    IF Len(s) > 0 /\ s[1] \in Whitespace THEN LStrip(Tail(s)) ELSE s

RECURSIVE RStrip(_)
RStrip(s) ==
    IF Len(s) > 0 /\ s[Len(s)] \in Whitespace
    THEN RStrip(SubSeq(s, 1, Len(s) - 1)) ELSE s

\* str.strip()
Strip(s) == RStrip(LStrip(s))

RECURSIVE SplitFrom(_, _, _)
\* str.split() from the rest s on, word being the word read so far.
SplitFrom(s, word, words) ==
    IF Len(s) = 0
    THEN (IF Len(word) > 0 THEN Append(words, word) ELSE words)
    ELSE IF s[1] \in Whitespace
    THEN SplitFrom(Tail(s), <<>>,
                   IF Len(word) > 0 THEN Append(words, word) ELSE words)
    ELSE SplitFrom(Tail(s), Append(word, s[1]), words)

\* str.split()
Split(s) == SplitFrom(s, <<>>, <<>>)

\* input("Enter a command: ").strip().lower().split()
Tokens(line) == Split(Lower(Strip(line)))

CmdClose == <<"c", "l", "o", "s", "e">>

CmdExit == <<"e", "x", "i", "t">>

CmdHello == <<"h", "e", "l", "l", "o">>

CmdAdd == <<"a", "d", "d">>

CmdChange == <<"c", "h", "a", "n", "g", "e">>

CmdPhone == <<"p", "h", "o", "n", "e">>

CmdAll == <<"a", "l", "l">>

CmdDelete == <<"d", "e", "l", "e", "t", "e">>

CmdAddBirthday == <<"a", "d", "d", "-", "b", "i", "r", "t", "h", "d", "a", "y">>

CmdShowBirthday == <<"s", "h", "o", "w", "-", "b", "i", "r", "t", "h", "d", "a", "y">>

CmdBirthdays == <<"b", "i", "r", "t", "h", "d", "a", "y", "s">>

CmdOther == <<"b", "o", "g", "u", "s">>

\* A printed text and the values formatted into it.
Text(text, values) == Ok([text |-> text, values |-> values])

\* input_error: what the wrapped handler returns for what func did.
input_error(r) ==
    IF r.kind = "ok" THEN r
    ELSE IF r.kind = "ValueError" THEN Text("ValueError: {e}", <<r.msg>>)
    ELSE IF r.kind = "KeyError" THEN Text("KeyError: {e}", <<r.msg>>)
    ELSE IF r.kind = "IndexError"
    THEN Text("IndexError: Invalid input, please try again.", <<>>)
    ELSE Text("An unexpected error occurred: {e}", <<r.msg>>)

\* a, b, ... = args with n names on the left
Unpack(args, n) ==
    IF Len(args) = n THEN Ok(args)
    ELSE IF Len(args) < n
    THEN Raise("ValueError", "not enough values to unpack")
    ELSE Raise("ValueError", "too many values to unpack")

\* add_contact before input_error: its result and the book's dict afterwards.
add_contact_func(args, data) ==
    IF Unpack(args, 2).kind # "ok"
    THEN [out |-> Unpack(args, 2), data |-> data]
    ELSE IF RecordInit(args[1]).kind # "ok"
    THEN [out |-> RecordInit(args[1]), data |-> data]
    ELSE IF add_phone(RecordInit(args[1]).val, args[2]).out.kind # "ok"
    THEN [out |-> add_phone(RecordInit(args[1]).val, args[2]).out,
          data |-> data]
    ELSE [out |-> Text("Contact {name} added with phone number {phone}", args),
          data |-> add_record(data,
                              add_phone(RecordInit(args[1]).val, args[2]).rec)]

\* add_contact
add_contact(args, data) ==
    [out |-> input_error(add_contact_func(args, data).out),
     data |-> add_contact_func(args, data).data]

\* change_phone before input_error
change_phone_func(args, data) ==
    IF Unpack(args, 3).kind # "ok"
    THEN [out |-> Unpack(args, 3), data |-> data]
    ELSE IF find(data, args[1]).kind # "ok"
    THEN [out |-> find(data, args[1]), data |-> data]
    ELSE LET r == edit_phone(find(data, args[1]).val, args[2], args[3])
         IN  [out |-> IF r.out.kind = "ok"
                      THEN Text("Phone number for {name} changed from {old_phone} to {new_phone}",
                                args)
                      ELSE r.out,
              data |-> Mutated(data, args[1], r.rec)]

\* change_phone
change_phone(args, data) ==
    [out |-> input_error(change_phone_func(args, data).out),
     data |-> change_phone_func(args, data).data]

\* show_phones before input_error
show_phones_func(args, data) ==
    IF Len(args) = 0 THEN Raise("IndexError", "list index out of range")
    ELSE IF find(data, args[1]).kind # "ok" THEN find(data, args[1])
    ELSE Text("{name}'s phones: {phones}",
              <<args[1], find(data, args[1]).val.phones>>)

\* show_phones
show_phones(args, data) == input_error(show_phones_func(args, data))

\* show_all_contacts
show_all_contacts(data) ==
    input_error(Text("all",
        [i \in 1..Len(data) |->
            [name |-> data[i].rec.name, phones |-> data[i].rec.phones,
             birthday |-> IF data[i].rec.birthday # None
                          THEN Strftime(data[i].rec.birthday)
                          ELSE <<"No birthday">>]]))

\* The lines typed: commands with no to three arguments, the first a name.
ShellCommands ==
    {CmdClose, CmdExit, CmdHello, CmdAdd, CmdChange, CmdPhone, CmdAll,
     CmdDelete, CmdAddBirthday, CmdShowBirthday, CmdBirthdays, CmdOther}

ShellValues == {P1, PShort, BLeapDay}

ShellArgs ==
    {<<>>} \cup {<<n>> : n \in {Mia, Bob}}
      \cup {<<n, v>> : n \in {Mia, Bob}, v \in ShellValues}
      \cup {<<n, v, w>> : n \in {Mia}, v \in {P1, PShort}, w \in {P1, PShort}}

RECURSIVE Join(_)
\* " ".join(words)
Join(words) ==
    IF Len(words) = 0 THEN <<>>
    ELSE IF Len(words) = 1 THEN words[1]
    ELSE words[1] \o <<SP>> \o Join(Tail(words))

ShellLines ==
    {Join(<<c>> \o a) : c \in ShellCommands, a \in ShellArgs}
      \cup {<<>>, <<SP>>, <<SP, "\t", SP>>,
            <<SP>> \o Join(<<<<"A", "d", "D">>, <<"M", "i", "a">>, P1>>) \o <<SP>>,
            <<"E", "X", "I", "T">>}

InitShell ==
    /\ book = <<>>
    /\ last = Call("init", <<>>, <<>>, <<>>, None, Ok(<<>>), NoRec)
    /\ ref = <<>>
    /\ refOut = Ok(<<>>)
    /\ pc = "prompt"

\* One turn of the loop: last is the line, its command and what was printed.
Turn(line, tokens, data, printed, next) ==
    /\ pc = "prompt"
    /\ book' = data
    /\ last' = Call("main", IF Len(tokens) > 0 THEN tokens[1] ELSE <<>>, line,
                    <<>>, None, printed, NoRec)
    /\ pc' = next
    /\ UNCHANGED <<ref, refOut>>

\* command, *args = user_input.split() on a line without a word: the
\* ValueError is raised before the try statement.
NoCommand(line, tokens) ==
    /\ Len(tokens) = 0
    /\ Turn(line, tokens, book,
            Raise("ValueError", "not enough values to unpack"), "crashed")

ExitCommand(line, tokens) ==
    /\ Len(tokens) > 0 /\ tokens[1] \in {CmdClose, CmdExit}
    /\ Turn(line, tokens, book, Text("Good bye!", <<>>), "exited")

HelloCommand(line, tokens) ==
    /\ Len(tokens) > 0 /\ tokens[1] = CmdHello
    /\ Turn(line, tokens, book, Text("How can I help you?", <<>>), "prompt")

AddCommand(line, tokens) ==
    /\ Len(tokens) > 0 /\ tokens[1] = CmdAdd
    /\ Turn(line, tokens, add_contact(Tail(tokens), book).data,
            add_contact(Tail(tokens), book).out, "prompt")

ChangeCommand(line, tokens) ==
    /\ Len(tokens) > 0 /\ tokens[1] = CmdChange
    /\ \A i \in 1..Len(change_phone(Tail(tokens), book).data) :
          Len(change_phone(Tail(tokens), book).data[i].rec.phones) <= MaxPhones
    /\ Turn(line, tokens, change_phone(Tail(tokens), book).data,
            change_phone(Tail(tokens), book).out, "prompt")

PhoneCommand(line, tokens) ==
    /\ Len(tokens) > 0 /\ tokens[1] = CmdPhone
    /\ Turn(line, tokens, book, show_phones(Tail(tokens), book), "prompt")

AllCommand(line, tokens) ==
    /\ Len(tokens) > 0 /\ tokens[1] = CmdAll
    /\ Turn(line, tokens, book, show_all_contacts(book), "prompt")

DeleteCommand(line, tokens) ==
    /\ Len(tokens) > 0 /\ tokens[1] = CmdDelete
    /\ IF Len(tokens) > 1
       THEN Turn(line, tokens, delete_record(book, tokens[2]).data,
                 delete_record(book, tokens[2]).out, "prompt")
       ELSE Turn(line, tokens, book,
                 Text("Please provide the name of the contact to delete.", <<>>),
                 "prompt")

AddBirthdayCommand(line, tokens) ==
    /\ Len(tokens) > 0 /\ tokens[1] = CmdAddBirthday
    /\ IF Len(tokens) = 3
       THEN IF KeyIndex(book, tokens[2]) # 0
            THEN LET r == add_birthday(RecOf(book, tokens[2]), tokens[3])
                 IN  Turn(line, tokens, Mutated(book, tokens[2], r.rec),
                          IF r.out.kind = "ok"
                          THEN Text("Birthday for {name} added.", <<tokens[2]>>)
                          ELSE Text("{e}", <<r.out.msg>>),
                          "prompt")
            ELSE Turn(line, tokens, book,
                      Text("Contact {name} not found.", <<tokens[2]>>), "prompt")
       ELSE Turn(line, tokens, book,
                 Text("Please provide both the contact name and the birthday date.",
                      <<>>),
                 "prompt")

ShowBirthdayCommand(line, tokens) ==
    /\ Len(tokens) > 0 /\ tokens[1] = CmdShowBirthday
    /\ IF Len(tokens) > 1
       THEN IF /\ KeyIndex(book, tokens[2]) # 0
               /\ RecOf(book, tokens[2]).birthday # None
            THEN Turn(line, tokens, book,
                      Text("{name}'s birthday is {birthday}",
                           <<tokens[2], Strftime(RecOf(book, tokens[2]).birthday)>>),
                      "prompt")
            ELSE Turn(line, tokens, book,
                      Text("No birthday found for {name}.", <<tokens[2]>>),
                      "prompt")
       ELSE Turn(line, tokens, book,
                 Text("Please provide the contact name.", <<>>), "prompt")

\* The birthdays branch; an exception of the query reaches except Exception.
BirthdaysCommand(line, tokens, today) ==
    /\ Len(tokens) > 0 /\ tokens[1] = CmdBirthdays
    /\ LET r == get_upcoming_birthdays(book, today)
       IN  Turn(line, tokens, book,
                IF r.kind # "ok" THEN Text("An error occurred: {e}", <<r.msg>>)
                ELSE IF Len(r.val) > 0 THEN Text("birthdays", r.val)
                ELSE Text("No upcoming birthdays in the next 7 days.", <<>>),
                "prompt")

OtherCommand(line, tokens) ==
    /\ Len(tokens) > 0 /\ tokens[1] \notin ShellCommands \ {CmdOther}
    /\ Turn(line, tokens, book, Text("Invalid command.", <<>>), "prompt")

\* The body of while True for the line read.
LoopBody(line, tokens) ==
    \/ NoCommand(line, tokens)
    \/ ExitCommand(line, tokens)
    \/ HelloCommand(line, tokens)
    \/ AddCommand(line, tokens)
    \/ ChangeCommand(line, tokens)
    \/ PhoneCommand(line, tokens)
    \/ AllCommand(line, tokens)
    \/ DeleteCommand(line, tokens)
    \/ AddBirthdayCommand(line, tokens)
    \/ ShowBirthdayCommand(line, tokens)
    \/ \E today \in {Date(2023, 2, 25), Date(2024, 2, 25)} :
           BirthdaysCommand(line, tokens, today)
    \/ OtherCommand(line, tokens)

NextShell == \E line \in ShellLines : LoopBody(line, Tokens(line))

SpecShell == InitShell /\ [][NextShell]_vars

----------------------------------------------------------------------------
(* What the claims speak of                                                *)

\* A valid phone, as the specification defines it: ten ASCII digits.
IsAsciiPhone(number) ==
    Len(number) = 10 /\ \A i \in 1..Len(number) : number[i] \in AsciiDigits

\* The day after dt.
NextDay(dt) ==
    IF dt.d < DaysInMonth(dt.y, dt.m) THEN Date(dt.y, dt.m, dt.d + 1)
    ELSE IF dt.m < 12 THEN Date(dt.y, dt.m + 1, 1)
    ELSE Date(dt.y + 1, 1, 1)

RECURSIVE DaysFrom(_, _)
\* today and the n days after it.
DaysFrom(today, n) ==
    IF n = 0 THEN {today} ELSE {today} \cup DaysFrom(NextDay(today), n - 1)

\* The birthday's day and month exist in the year of today.
HasCandidate(rec, today) ==
    /\ rec.birthday # None
    /\ rec.birthday.m \in 1..12
    /\ rec.birthday.d \in 1..DaysInMonth(today.y, rec.birthday.m)

Candidate(rec, today) == Date(today.y, rec.birthday.m, rec.birthday.d)

\* The record's candidate date lies in [today, today + 7 days].
Qualifies(rec, today) ==
    HasCandidate(rec, today) /\ Candidate(rec, today) \in DaysFrom(today, 7)

\* The entries of the book that qualify, in the book's order.
QualifyingEntries(data, today) ==
    SelectSeq(data, LAMBDA e : Qualifies(e.rec, today))

\* pairs is one (name, candidate date) pair per qualifying record, in order.
IsTheUpcomingList(pairs, data, today) ==
    LET q == QualifyingEntries(data, today)
    IN  /\ Len(pairs) = Len(q)
        /\ \A i \in 1..Len(q) :
              /\ pairs[i].name = q[i].rec.name
              /\ BirthdayInit(pairs[i].birthday) = Ok(Candidate(q[i].rec, today))

IsLeapDay(dt) == dt.m = 2 /\ dt.d = 29

HasLeapDayRecord(data) == \E i \in 1..Len(data) : IsLeapDay(data[i].rec.birthday)

\* C1 as stated: for every book and every today, upcomingBirthdays(today)
\* returns exactly the (name, candidate date) pairs of the records whose
\* candidate date lies in [today, today + 7 days], in insertion order.
C1_UpcomingForEveryBook ==
    last.op = "upcomingBirthdays" =>
        /\ last.out.kind = "ok"
        /\ IsTheUpcomingList(last.out.val, book, last.today)

\* today + 7 days is a date: today is not after 24 December 9999.
WindowIsInTheCalendar(today) ==
    ~(today.y = 9999 /\ today.m = 12 /\ today.d > 24)

\* C1 amended: the same, for every book and today except a book holding a
\* 29 February birthday queried in a year that is not a leap year, and
\* except the last week of the calendar.
C1_UpcomingUnlessLeapDay ==
    (/\ last.op = "upcomingBirthdays"
     /\ ~(HasLeapDayRecord(book) /\ ~IsLeap(last.today.y))
     /\ WindowIsInTheCalendar(last.today)) =>
        /\ last.out.kind = "ok"
        /\ IsTheUpcomingList(last.out.val, book, last.today)

\* A late December query that returns one record and leaves out a record
\* whose birthday is on 1 January.
C1_Witness ==
    /\ last.op = "upcomingBirthdays"
    /\ last.today.m = 12
    /\ last.out.kind = "ok"
    /\ Len(last.out.val) = 1
    /\ Len(book) = 2
    /\ book[1].rec.birthday = Date(1990, 1, 1)
    /\ book[2].rec.birthday = Date(1990, 12, 25)

\* C9: with a 29 February birthday in the book and today's year not a leap
\* year, the query raises instead of returning a list, and leaves the book
\* as it was.
C9_LeapDayFailsTheQuery ==
    [][(/\ last'.op = "upcomingBirthdays"
        /\ HasLeapDayRecord(book)
        /\ ~IsLeap(last'.today.y)) =>
           /\ last'.out.kind \in {"ValueError", "OverflowError"}
           /\ last'.out.val = <<>>
           /\ book' = book]_vars

\* The query failed although another record's candidate date is in the window.
C9_Witness ==
    /\ last.op = "upcomingBirthdays"
    /\ last.out.kind = "ValueError"
    /\ HasLeapDayRecord(book)
    /\ \E i \in 1..Len(book) : Qualifies(book[i].rec, last.today)

\* C5: every key of the book maps to a record whose name is that key, and
\* every stored record has a non-empty name.
C5_KeyIsName ==
    \A i \in 1..Len(book) :
        book[i].key = book[i].rec.name /\ Len(book[i].rec.name) > 0

\* Two records are stored and the last call, one with an empty name, failed.
C5_Witness ==
    /\ Len(book) = 2
    /\ last.op = "addRecord"
    /\ last.name = <<>>
    /\ last.out.kind = "ValueError"

\* How many entries of phones equal number.
Occurrences(phones, number) ==
    Cardinality({i \in 1..Len(phones) : phones[i] = number})

\* post is pre without its first entry equal to number; pre when none is.
IsWithoutFirst(post, pre, number) ==
    IF \E i \in 1..Len(pre) : pre[i] = number
    THEN \E i \in 1..Len(pre) :
            /\ pre[i] = number
            /\ \A j \in 1..(i - 1) : pre[j] # number
            /\ Len(post) = Len(pre) - 1
            /\ \A j \in 1..Len(post) :
                  post[j] = IF j < i THEN pre[j] ELSE pre[j + 1]
    ELSE post = pre

\* The record the last call was made on, as the call left it.
Post == RecOf(book, last.name)

\* C2 as stated: after editPhone(old, new) completes on a record holding the
\* valid phone old, with new valid, findPhone(new) succeeds and findPhone(old)
\* fails, also when old occurs more than once or new equals old.
C2_EditThenOldIsGone ==
    (/\ last.op = "editPhone"
     /\ IsAsciiPhone(last.a1) /\ IsAsciiPhone(last.a2)
     /\ Occurrences(last.pre.phones, last.a1) >= 1
     /\ last.out.kind = "ok") =>
        /\ find_phone(Post, last.a2).kind = "ok"
        /\ find_phone(Post, last.a1).kind = "ValueError"

\* C2 amended: findPhone(new) succeeds, and findPhone(old) fails exactly when
\* old occurred once before the call and new differs from old.
C2_EditThenOldIsGoneIfSingle ==
    (/\ last.op = "editPhone"
     /\ IsAsciiPhone(last.a1) /\ IsAsciiPhone(last.a2)
     /\ Occurrences(last.pre.phones, last.a1) >= 1
     /\ last.out.kind = "ok") =>
        /\ find_phone(Post, last.a2) = Ok(last.a2)
        /\ (find_phone(Post, last.a1)
                = Raise("ValueError", "Phone number not found"))
             <=> (Occurrences(last.pre.phones, last.a1) = 1
                    /\ last.a1 # last.a2)

\* An edit of a number the record held twice.
C2_Witness ==
    /\ last.op = "editPhone"
    /\ last.out.kind = "ok"
    /\ last.pre.phones = <<P1, P1>>
    /\ last.a1 = P1
    /\ last.a2 = P2
    /\ Post.phones = <<P1, P2>>

\* C6 as stated: editPhone with a valid old and an invalid new raises the
\* validation error and leaves the phones without the first old, nothing
\* added; with an invalid old it raises before anything changes.
C6_EditInvalidNumbers ==
    last.op = "editPhone" =>
        /\ (IsAsciiPhone(last.a1) /\ ~IsAsciiPhone(last.a2)) =>
              /\ last.out = Raise("ValueError", "Invalid phone number")
              /\ IsWithoutFirst(Post.phones, last.pre.phones, last.a1)
        /\ ~IsAsciiPhone(last.a1) =>
              /\ last.out = Raise("ValueError", "Invalid phone number")
              /\ Post.phones = last.pre.phones

\* The same for the numbers Phone refuses: what the code does once a number
\* is refused.
C6_EditRefusedNumbers ==
    last.op = "editPhone" =>
        /\ (PhoneInit(last.a1).kind = "ok" /\ PhoneInit(last.a2).kind # "ok") =>
              /\ last.out = Raise("ValueError", "Invalid phone number")
              /\ IsWithoutFirst(Post.phones, last.pre.phones, last.a1)
        /\ PhoneInit(last.a1).kind # "ok" =>
              /\ last.out = Raise("ValueError", "Invalid phone number")
              /\ Post.phones = last.pre.phones

C3_PhoneIffTenAsciiDigits ==
    last.op = "Phone" =>
        /\ last.out.kind = "ok" <=> IsAsciiPhone(last.a1)
        /\ ~IsAsciiPhone(last.a1) =>
              last.out = Raise("ValueError", "Invalid phone number")

\* DD.MM.YYYY: two digits, a dot, two digits, a dot, four digits.
IsDDMMYYYY(value) ==
    /\ Len(value) = 10
    /\ value[3] = "." /\ value[6] = "."
    /\ \A i \in {1, 2, 4, 5, 7, 8, 9, 10} : value[i] \in AsciiDigits

\* A string of that shape whose numbers are a calendar date.
IsCalendarDate(value) ==
    /\ IsDDMMYYYY(value)
    /\ ValidDate(ToInt(SubSeq(value, 7, 10)), ToInt(SubSeq(value, 4, 5)),
                 ToInt(SubSeq(value, 1, 2)))

\* C8 as stated: setBirthday succeeds only for strings of the shape DD.MM.YYYY
\* that are a calendar date; for every other string it raises the validation
\* error and leaves the stored birthday as it was.
C8_BirthdayOnlyDDMMYYYY ==
    last.op = "setBirthday" =>
        /\ last.out.kind = "ok" => IsCalendarDate(last.a1)
        /\ ~IsCalendarDate(last.a1) =>
              /\ last.out.kind = "ValueError"
              /\ Post.birthday = last.pre.birthday

\* What holds of setBirthday: a calendar date in the shape DD.MM.YYYY is
\* stored, and a refused string raises and leaves the stored birthday.
C8_RefusedKeepsBirthday ==
    last.op = "setBirthday" =>
        /\ IsCalendarDate(last.a1) =>
              /\ last.out.kind = "ok"
              /\ Strftime(Post.birthday) = last.a1
        /\ last.out.kind # "ok" =>
              /\ last.out = Raise("ValueError",
                                  "Invalid date format. Use DD.MM.YYYY")
              /\ Post.birthday = last.pre.birthday

\* The answers of the reference map to the lookups of every name.
RefFind(name) ==
    IF ref[name] # NoRec THEN Ok(ref[name])
    ELSE Raise("KeyError", "Record not found")

SameOutcome(a, b) == a.kind = b.kind /\ a.msg = b.msg /\ a.val = b.val

\* C4: after any addRecord, deleteRecord and find calls the book answers as
\* the reference map does: one entry per present name, holding the record
\* last added under it; the call just made returned what the map returns.
C4_BookIsTheMap ==
    /\ \A name \in BookNames : SameOutcome(find(book, name), RefFind(name))
    /\ Len(book) = Cardinality({name \in BookNames : ref[name] # NoRec})
    /\ last.op \in {"addRecord", "deleteRecord", "find"} =>
          SameOutcome(last.out, refOut)
    /\ last.op = "deleteRecord" => last.out.kind = "ok"

\* An addRecord that replaced a different record of the same name.
C4_Witness ==
    /\ last.op = "addRecord"
    /\ last.pre # NoRec
    /\ last.pre # RecOf(book, last.name)
    /\ Len(book) = 2

\* C10: the command loop never ends on an unhandled error; it ends only on
\* the command close or exit.
C10_LoopEndsOnlyOnExit ==
    /\ pc # "crashed"
    /\ pc = "exited" => last.name \in {CmdClose, CmdExit}

\* What holds of the lines that hold a word: they never end the loop with an
\* error.
C10_LinesWithACommand ==
    (last.op = "main" /\ Len(Tokens(last.a1)) > 0) =>
        /\ last.out.kind = "ok"
        /\ pc \in {"prompt", "exited"}
        /\ pc = "exited" <=> last.name \in {CmdClose, CmdExit}

====
